---- MODULE Spec2Model ----
(***************************************************************************)
(* VendNexus: the in-memory catalog and sales ledger of App, the checkout  *)
(* flow of CustomerView, the product form and the price-suggestion popup   *)
(* of Inventory.  Amounts are integer cents, the clock is Date.now() in    *)
(* milliseconds.  Each action is one event handler or one asynchronous     *)
(* callback (timer, promise continuation) run to completion.               *)
(*                                                                         *)
(* View-only state is left out: activeCategory, searchTerm,                *)
(* selectedMachineId, isSidebarOpen, the image and category fields.        *)
(***************************************************************************)
EXTENDS Integers, Sequences, FiniteSets, TLC

VARIABLES
    now,              \* Date.now()
    isOwnerMode,      \* App
    activeTab,        \* App
    products,         \* App: the live catalog
    sales,            \* App: the ledger, newest first
    cart,             \* CustomerView
    showCart,         \* CustomerView
    isProcessing,     \* CustomerView
    purchaseComplete, \* CustomerView
    timers,           \* pending setTimeout callbacks of handleCheckout, FIFO
    isModalOpen,      \* Inventory
    modalMode,        \* Inventory
    currentProduct,   \* Inventory: the draft of the product form
    priceSuggestion,  \* Inventory: the popup
    requests,         \* suggestOptimalPrice calls awaiting their result
    isAnalyzing,      \* Inventory: Smart Restock
    aiSuggestion,     \* Inventory: the insight shown
    insights,         \* generateBusinessInsight calls in flight
    messages,         \* AIAssistant: the transcript
    isLoading,        \* AIAssistant
    chats,            \* chatWithAgent calls in flight
    audit             \* history: what the last applied checkout was given,
                      \* the submits rejected, the last chat response

restockVars   == <<isAnalyzing, aiSuggestion, insights>>
assistantVars == <<messages, isLoading, chats>>
oracleVars    == <<restockVars, assistantVars>>

vars == <<now, isOwnerMode, activeTab, products, sales, cart, showCart,
          isProcessing, purchaseComplete, timers, isModalOpen, modalMode,
          currentProduct, priceSuggestion, requests, audit, oracleVars>>

appVars      == <<isOwnerMode, activeTab>>
customerVars == <<cart, showCart, isProcessing, purchaseComplete>>
formVars     == <<isModalOpen, modalMode, currentProduct>>
popupVars    == <<priceSuggestion, requests>>

----------------------------------------------------------------------------
(* Bounds of the model                                                     *)

MaxCartQty    == 2   \* units of one product in a cart
MaxCheckouts  == 2   \* checkouts started, applied or pending
MaxShopCheckouts == 1 \* the same, where the owner edits the catalog as well
MaxRequests   == 2   \* price-suggestion calls outstanding at once
MaxProducts   == 3   \* products in the catalog
MaxWaits      == 2   \* times the clock advances by CheckoutDelay
MaxKeystrokes == 1   \* times the clock advances by typing
MaxRejected   == 1   \* submits of the form that are refused
MaxSends      == 2   \* messages the owner sends in one chat
MaxOracleCalls == 1  \* the same, and price suggestions, next to the form

----------------------------------------------------------------------------
(* Program constants                                                       *)

NOW == 10000

\* 86400000 in the source.  The model's integers are 32 bits wide and
\* 30 * 86400000 does not fit, so the model's day is a thousand times
\* shorter; only the order of instants matters.
DAY == 86400

CheckoutDelay == 2000

RecentSalesLimit == 50

\* The number a numeric form field holds after its input was cleared:
\* parseInt('') is NaN.  NaN is kept apart from every integer a field can
\* hold; the Js* operators below give it JavaScript's arithmetic.
NaN == 0 - 1000000

MachineIds == {"m1", "m2", "m3"}

customerMachineId == "m1"

PaymentMethod == {"Credit Card", "UPI", "Wallet", "Cash", "QR Code"}

OwnerTabs == {"dashboard", "inventory", "sales", "ai-agent"}

FailedText == "Failed to generate suggestion."

INITIAL_PRODUCTS ==
    << [id |-> "p1", machineId |-> "m1", name |-> "Sparkle Water",
        price |-> 250, cost |-> 80, quantity |-> 2, min_quantity |-> 10,
        expiryDate |-> NOW + 30 * DAY],
       [id |-> "p2", machineId |-> "m1", name |-> "Energy Blast",
        price |-> 350, cost |-> 120, quantity |-> 1, min_quantity |-> 15,
        expiryDate |-> NOW + 60 * DAY] >>

INITIAL_SALES ==
    << [id |-> "s-1", productId |-> "p1", productName |-> "Sparkle Water",
        machineId |-> "m1", quantity |-> 2, revenue |-> 500, profit |-> 340,
        timestamp |-> NOW - 5, paymentMethod |-> "UPI"],
       [id |-> "s-0", productId |-> "p2", productName |-> "Energy Blast",
        machineId |-> "m1", quantity |-> 1, revenue |-> 350, profit |-> 230,
        timestamp |-> NOW - 9, paymentMethod |-> "Cash"] >>

\* Array.prototype.sort((a, b) => b.timestamp - a.timestamp): a stable
\* sort, newest first
RECURSIVE InsertByTimestamp(_, _)
InsertByTimestamp(sorted, record) ==
    IF sorted = <<>> THEN <<record>>
    ELSE IF Head(sorted).timestamp >= record.timestamp
         THEN <<Head(sorted)>> \o InsertByTimestamp(Tail(sorted), record)
         ELSE <<record>> \o sorted

RECURSIVE SortByTimestampDesc(_)
SortByTimestampDesc(s) ==
    IF s = <<>> THEN <<>>
    ELSE InsertByTimestamp(SortByTimestampDesc(SubSeq(s, 1, Len(s) - 1)),
                           s[Len(s)])

\* The numbers Math.random() gives generateMockSales, by seed and call
MockSeeds == {1, 2}
MockRandom(seed, i, range) == ((i * 37 + seed * 11) * 1009) % range

MockSalesCount == 50

\* Object.values(PaymentMethod)
PaymentMethodValues == <<"Credit Card", "UPI", "Wallet", "Cash", "QR Code">>

\* generateMockSales: 50 sales of the last seven days, newest first
MockSale(seed, i) ==
    LET randomProduct ==
            INITIAL_PRODUCTS[MockRandom(seed, i, Len(INITIAL_PRODUCTS)) + 1]
        timeOffset == MockRandom(seed, i + 1, 7 * DAY)
        qty == MockRandom(seed, i + 2, 3) + 1
    IN [id |-> "s-" \o ToString(i),
        productId |-> randomProduct.id,
        productName |-> randomProduct.name,
        machineId |-> randomProduct.machineId,
        quantity |-> qty,
        revenue |-> randomProduct.price * qty,
        profit |-> (randomProduct.price - randomProduct.cost) * qty,
        timestamp |-> NOW - timeOffset,
        paymentMethod |-> PaymentMethodValues[MockRandom(seed, i + 3, 5) + 1]]

generateMockSales(seed) ==
    SortByTimestampDesc([k \in 1..MockSalesCount |-> MockSale(seed, k - 1)])

----------------------------------------------------------------------------
(* Inputs the model enumerates                                             *)

NameInputs     == {"", "Cola Zero"}
PriceInputs    == {300}
QuantityInputs == {NaN, 0 - 1, 5}
MachineInputs  == {"m2", "m9"}
ExpiryInputs   == {NaN, NOW - 2 * DAY, NOW + CheckoutDelay, NOW + 4 * DAY,
                   NOW + 7 * DAY + CheckoutDelay}
PaymentInputs  == {"UPI", "Cash"}
SuggestedPrices == {275}
TabInputs      == {"dashboard", "inventory"}
ChatInputs     == {" ", "How is stock?"}

----------------------------------------------------------------------------
(* JavaScript arithmetic on numbers that may be NaN                        *)

JsSub(a, b) == IF a = NaN \/ b = NaN THEN NaN ELSE a - b

MathMax(a, b) == IF a = NaN \/ b = NaN THEN NaN ELSE IF a >= b THEN a ELSE b

\* x >= y in JavaScript: false as soon as one side is NaN
JsGe(a, b) == a # NaN /\ b # NaN /\ a >= b

\* x <= y and x < y in JavaScript: false as soon as one side is NaN
JsLe(a, b) == a # NaN /\ b # NaN /\ a <= b
JsLt(a, b) == a # NaN /\ b # NaN /\ a < b

----------------------------------------------------------------------------
(* Sequence helpers: Array.prototype.filter / findIndex / map              *)

RECURSIVE FilterSeq(_, _)
FilterSeq(s, keep) ==
    IF s = <<>> THEN <<>>
    ELSE IF Head(s) \in keep THEN <<Head(s)>> \o FilterSeq(Tail(s), keep)
         ELSE FilterSeq(Tail(s), keep)

Range(s) == {s[i] : i \in 1..Len(s)}

Last(s) == s[Len(s)]

\* findIndex: the first index whose element has this id, 0 for -1
FindIndex(s, id) ==
    IF \E i \in 1..Len(s) : s[i].id = id
    THEN CHOOSE i \in 1..Len(s) :
            s[i].id = id /\ \A j \in 1..(i - 1) : s[j].id # id
    ELSE 0

----------------------------------------------------------------------------
(* Initial state                                                           *)

\* The draft of openAddModal and of the form's useState initial value
NewDraft(t) ==
    [id |-> "", name |-> "", machineId |-> "m1", price |-> 100, cost |-> 50,
     quantity |-> 10, min_quantity |-> 5, expiryDate |-> t + 30 * DAY]

NoSuggestion ==
    [isOpen |-> FALSE, product |-> <<>>, suggestedPrice |-> 0,
     reasoning |-> "", isLoading |-> FALSE]

NoAudit ==
    [n |-> 0, cart |-> <<>>, method |-> "", live |-> <<>>, priorSales |-> <<>>,
     timestamp |-> 0, revenue |-> 0, profit |-> 0, units |-> 0,
     rejected |-> 0, response |-> <<>>, playback |-> ""]

\* The first message of the transcript
Greeting ==
    [role |-> "model",
     text |-> "Hello! I am your VendNexus business assistant."]

\* AIAssistant as mounted, and as kept while it is not mounted
AIAssistantInit ==
    /\ messages' = <<Greeting>>
    /\ isLoading' = FALSE
    /\ chats' = <<>>

\* CustomerView as mounted, and as kept while it is not mounted
CustomerViewInit ==
    /\ cart' = <<>>
    /\ showCart' = FALSE
    /\ isProcessing' = FALSE
    /\ purchaseComplete' = FALSE

\* Inventory as mounted at time t
InventoryInit(t) ==
    /\ isModalOpen' = FALSE
    /\ modalMode' = "add"
    /\ currentProduct' = NewDraft(t)
    /\ priceSuggestion' = NoSuggestion
    /\ isAnalyzing' = FALSE
    /\ aiSuggestion' = <<>>
    /\ insights' = <<>>

Init ==
    /\ now = NOW
    /\ isOwnerMode = TRUE
    /\ activeTab = "dashboard"
    /\ products = INITIAL_PRODUCTS
    /\ sales = INITIAL_SALES
    /\ cart = <<>>
    /\ showCart = FALSE
    /\ isProcessing = FALSE
    /\ purchaseComplete = FALSE
    /\ timers = <<>>
    /\ isModalOpen = FALSE
    /\ modalMode = "add"
    /\ currentProduct = NewDraft(NOW)
    /\ priceSuggestion = NoSuggestion
    /\ requests = <<>>
    /\ isAnalyzing = FALSE
    /\ aiSuggestion = <<>>
    /\ insights = <<>>
    /\ messages = <<Greeting>>
    /\ isLoading = FALSE
    /\ chats = <<>>
    /\ audit = NoAudit

\* The program started with the 50 mock sales of generateMockSales
InitMockSales ==
    /\ now = NOW
    /\ isOwnerMode = TRUE
    /\ activeTab = "dashboard"
    /\ products = INITIAL_PRODUCTS
    /\ sales \in {generateMockSales(seed) : seed \in MockSeeds}
    /\ cart = <<>>
    /\ showCart = FALSE
    /\ isProcessing = FALSE
    /\ purchaseComplete = FALSE
    /\ timers = <<>>
    /\ isModalOpen = FALSE
    /\ modalMode = "add"
    /\ currentProduct = NewDraft(NOW)
    /\ priceSuggestion = NoSuggestion
    /\ requests = <<>>
    /\ isAnalyzing = FALSE
    /\ aiSuggestion = <<>>
    /\ insights = <<>>
    /\ messages = <<Greeting>>
    /\ isLoading = FALSE
    /\ chats = <<>>
    /\ audit = NoAudit

InventoryMounted == isOwnerMode /\ activeTab = "inventory"

\* A component that unmounts leaves its pending callbacks without effect
\* on component state: their setState calls address the old instance.
Orphan(cb) == [cb EXCEPT !.live = FALSE]

OrphanTimers == [i \in 1..Len(timers) |-> Orphan(timers[i])]

\* A price-suggestion continuation of an unmounted Inventory changes
\* nothing at all, so the model forgets the call
OrphanRequests == <<>>

----------------------------------------------------------------------------
(* The clock                                                               *)

Waits == (now - NOW) \div CheckoutDelay
Keystrokes == (now - NOW) % CheckoutDelay

\* CheckoutDelay milliseconds pass
TimePasses ==
    /\ Waits < MaxWaits
    /\ now' = now + CheckoutDelay
    /\ UNCHANGED <<appVars, products, sales, customerVars, timers, formVars,
                   popupVars, audit, oracleVars>>

----------------------------------------------------------------------------
(* App and Layout                                                          *)

\* Layout's mode button: App.toggleMode
toggleMode ==
    /\ isOwnerMode' = ~isOwnerMode
    /\ activeTab' = "dashboard"
    /\ CustomerViewInit
    /\ timers' = IF isOwnerMode THEN timers ELSE OrphanTimers
    /\ InventoryInit(NOW)
    /\ requests' = IF InventoryMounted THEN OrphanRequests ELSE requests
    /\ AIAssistantInit
    /\ UNCHANGED <<now, products, sales, audit>>

\* Layout's owner links: onTabChange = setActiveTab
setActiveTab(tab) ==
    /\ isOwnerMode
    /\ tab # activeTab
    /\ activeTab' = tab
    /\ IF tab = "inventory"
       THEN /\ InventoryInit(now)
            /\ UNCHANGED requests
       ELSE /\ InventoryInit(NOW)
            /\ requests' = IF InventoryMounted THEN OrphanRequests
                                               ELSE requests
    /\ UNCHANGED <<now, isOwnerMode, products, sales, customerVars, timers,
                   audit, assistantVars>>

handleUpdateProduct(prev, updatedProduct) ==
    [i \in 1..Len(prev) |->
        IF prev[i].id = updatedProduct.id THEN updatedProduct ELSE prev[i]]

handleDeleteProduct(prev, id) ==
    FilterSeq(prev, {p \in Range(prev) : p.id # id})

handleAddProduct(prev, product) == Append(prev, product)

----------------------------------------------------------------------------
(* App.handleCustomerPurchase                                              *)

\* SaleRecord with the profit's parentheses lost: price - cost * quantity
SaleRecord_ProfitUnparenthesised(item, timestamp, method) ==
    [id |-> "s-" \o ToString(timestamp) \o "-" \o item.id,
     productId |-> item.id,
     productName |-> item.name,
     machineId |-> item.machineId,
     quantity |-> item.cartQuantity,
     revenue |-> item.price * item.cartQuantity,
     profit |-> item.price - item.cost * item.cartQuantity,
     timestamp |-> timestamp,
     paymentMethod |-> method]

\* SaleRecord with price and cost re-read from the live catalog
SaleRecord_LivePrice(item, timestamp, method) ==
    LET i == FindIndex(products, item.id)
        price == IF i # 0 THEN products[i].price ELSE item.price
        cost == IF i # 0 THEN products[i].cost ELSE item.cost
    IN [id |-> "s-" \o ToString(timestamp) \o "-" \o item.id,
        productId |-> item.id,
        productName |-> item.name,
        machineId |-> item.machineId,
        quantity |-> item.cartQuantity,
        revenue |-> price * item.cartQuantity,
        profit |-> (price - cost) * item.cartQuantity,
        timestamp |-> timestamp,
        paymentMethod |-> method]

\* The SaleRecord pushed for one cart line
SaleRecord(item, timestamp, method) ==
    [id |-> "s-" \o ToString(timestamp) \o "-" \o item.id,
     productId |-> item.id,
     productName |-> item.name,
     machineId |-> item.machineId,
     quantity |-> item.cartQuantity,
     revenue |-> item.price * item.cartQuantity,
     profit |-> (item.price - item.cost) * item.cartQuantity,
     timestamp |-> timestamp,
     paymentMethod |-> method]

\* NewSales with one record per unit instead of one per line
RECURSIVE NewSales_PerUnit(_, _, _)
NewSales_PerUnit(c, timestamp, method) ==
    IF c = <<>> THEN <<>>
    ELSE [k \in 1..Head(c).cartQuantity |->
             SaleRecord([Head(c) EXCEPT !.cartQuantity = 1], timestamp, method)]
         \o NewSales_PerUnit(Tail(c), timestamp, method)

NewSales(c, timestamp, method) ==
    [i \in 1..Len(c) |-> SaleRecord(c[i], timestamp, method)]

\* The inventory update of one cart line on the copy updatedProducts
UpdateInventory(updatedProducts, item) ==
    LET productIndex == FindIndex(updatedProducts, item.id) IN
    IF productIndex # 0
    THEN [updatedProducts EXCEPT ![productIndex].quantity =
             MathMax(0, JsSub(updatedProducts[productIndex].quantity,
                              item.cartQuantity))]
    ELSE updatedProducts

\* cart.forEach over the copy of the products the handler closed over
RECURSIVE UpdatedProducts(_, _)
UpdatedProducts(closureProducts, c) ==
    IF c = <<>> THEN closureProducts
    ELSE UpdatedProducts(UpdateInventory(closureProducts, Head(c)), Tail(c))

\* setSales(newSales): the earlier records are dropped
SetSales_Replace(prev, newSales) == newSales

\* The updater run twice on its own result
SetSales_CountedTwice(prev, newSales) == newSales \o newSales \o prev

\* setSales(prev => [...prev, ...newSales])
SetSales_AtEnd(prev, newSales) == prev \o newSales

\* setSales(prev => [...newSales, ...prev])
SetSales(prev, newSales) == newSales \o prev

\* setProducts(updatedProducts): the handler starts from the products of
\* the render that created it, not from the live catalog
SetProducts(liveProducts, closureProducts, c) ==
    UpdatedProducts(closureProducts, c)

RECURSIVE cartTotal(_)
cartTotal(c) ==
    IF c = <<>> THEN 0
    ELSE Head(c).price * Head(c).cartQuantity + cartTotal(Tail(c))

RECURSIVE cartItemCount(_)
cartItemCount(c) ==
    IF c = <<>> THEN 0 ELSE Head(c).cartQuantity + cartItemCount(Tail(c))

----------------------------------------------------------------------------
(* Dashboard: the metrics of the overview                                  *)

filteredSales(s, selectedMachineId) ==
    IF selectedMachineId = "all" THEN s
    ELSE FilterSeq(s, {r \in Range(s) : r.machineId = selectedMachineId})

RECURSIVE SumRevenue(_)
SumRevenue(s) == IF s = <<>> THEN 0 ELSE Head(s).revenue + SumRevenue(Tail(s))

RECURSIVE SumProfit(_)
SumProfit(s) == IF s = <<>> THEN 0 ELSE Head(s).profit + SumProfit(Tail(s))

RECURSIVE SumQuantity(_)
SumQuantity(s) ==
    IF s = <<>> THEN 0 ELSE Head(s).quantity + SumQuantity(Tail(s))

totalRevenue(s, selectedMachineId) ==
    SumRevenue(filteredSales(s, selectedMachineId))

totalProfit(s, selectedMachineId) ==
    SumProfit(filteredSales(s, selectedMachineId))

totalItemsSold(s, selectedMachineId) ==
    SumQuantity(filteredSales(s, selectedMachineId))

filteredProducts(p, selectedMachineId) ==
    IF selectedMachineId = "all" THEN p
    ELSE FilterSeq(p, {x \in Range(p) : x.machineId = selectedMachineId})

\* The Low Stock Alerts card
lowStockCount(p, selectedMachineId) ==
    LET shown == filteredProducts(p, selectedMachineId)
    IN Len(FilterSeq(shown, {x \in Range(shown) :
                                JsLe(x.quantity, x.min_quantity)}))

----------------------------------------------------------------------------
(* CustomerView                                                            *)

ShopVisible == ~isOwnerMode /\ ~purchaseComplete /\ ~showCart
CartVisible == ~isOwnerMode /\ ~purchaseComplete /\ showCart

\* The products App hands to CustomerView
CustomerProducts ==
    FilterSeq(products, {p \in Range(products) : p.machineId = customerMachineId})

InCart(c, id) == \E i \in 1..Len(c) : c[i].id = id

AddedToCart(prev, product) ==
    IF InCart(prev, product.id)
    THEN [i \in 1..Len(prev) |->
            IF prev[i].id = product.id
            THEN [prev[i] EXCEPT !.cartQuantity = prev[i].cartQuantity + 1]
            ELSE prev[i]]
    ELSE Append(prev, [id |-> product.id, machineId |-> product.machineId,
                       name |-> product.name, price |-> product.price,
                       cost |-> product.cost, quantity |-> product.quantity,
                       min_quantity |-> product.min_quantity,
                       expiryDate |-> product.expiryDate,
                       cartQuantity |-> 1])

\* The plus button of a product card, disabled at quantity === 0
addToCart(product) ==
    /\ ShopVisible
    /\ product \in Range(CustomerProducts)
    /\ product.quantity # 0
    /\ \A i \in 1..Len(cart) :
          cart[i].id = product.id => cart[i].cartQuantity < MaxCartQty
    /\ cart' = AddedToCart(cart, product)
    /\ UNCHANGED <<now, appVars, products, sales, showCart, isProcessing,
                   purchaseComplete, timers, formVars, popupVars, audit, oracleVars>>

removeFromCart(id) ==
    /\ CartVisible
    /\ InCart(cart, id)
    /\ cart' = FilterSeq(cart, {item \in Range(cart) : item.id # id})
    /\ UNCHANGED <<now, appVars, products, sales, showCart, isProcessing,
                   purchaseComplete, timers, formVars, popupVars, audit, oracleVars>>

\* The floating cart button (shown when cartItemCount > 0) and Back to Shop
setShowCart(b) ==
    /\ IF b THEN ShopVisible /\ cartItemCount(cart) > 0 ELSE CartVisible
    /\ showCart' = b
    /\ UNCHANGED <<now, appVars, products, sales, cart, isProcessing,
                   purchaseComplete, timers, formVars, popupVars, audit, oracleVars>>

\* A payment method button: shown when cart.length > 0, disabled while
\* isProcessing.  The timer callback closes over this render's cart and
\* over this render's onPurchase, which closed over this render's products.
\* Payment buttons that are there for an empty cart as well
handleCheckout_AnyCart(method) ==
    /\ CartVisible
    /\ ~isProcessing
    /\ audit.n + Len(timers) < MaxCheckouts
    /\ isProcessing' = TRUE
    /\ timers' = Append(timers, [cart |-> cart, method |-> method,
                                 products |-> products,
                                 due |-> now + CheckoutDelay, live |-> TRUE])
    /\ UNCHANGED <<now, appVars, products, sales, cart, showCart,
                   purchaseComplete, formVars, popupVars, audit, oracleVars>>

handleCheckout(method) ==
    /\ CartVisible
    /\ Len(cart) > 0
    /\ ~isProcessing
    /\ audit.n + Len(timers) < MaxCheckouts
    /\ isProcessing' = TRUE
    /\ timers' = Append(timers, [cart |-> cart, method |-> method,
                                 products |-> products,
                                 due |-> now + CheckoutDelay, live |-> TRUE])
    /\ UNCHANGED <<now, appVars, products, sales, cart, showCart,
                   purchaseComplete, formVars, popupVars, audit, oracleVars>>

\* The setTimeout callback of handleCheckout: onPurchase(cart, method),
\* then the state updates of the CustomerView that set the timer
CheckoutTimer ==
    /\ Len(timers) > 0
    /\ now >= Head(timers).due
    /\ LET t == Head(timers)
           newSales == NewSales(t.cart, now, t.method)
       IN /\ sales' = SetSales(sales, newSales)
          /\ products' = SetProducts(products, t.products, t.cart)
          /\ audit' = [audit EXCEPT
                         !.n = audit.n + 1, !.cart = t.cart,
                         !.method = t.method, !.live = products,
                         !.priorSales = sales, !.timestamp = now,
                         !.revenue = audit.revenue
                                     + totalRevenue(newSales, "all"),
                         !.profit = audit.profit
                                    + totalProfit(newSales, "all"),
                         !.units = audit.units
                                   + totalItemsSold(newSales, "all")]
          /\ IF t.live
             THEN /\ isProcessing' = FALSE
                  /\ purchaseComplete' = TRUE
                  /\ cart' = <<>>
                  /\ UNCHANGED showCart
             ELSE UNCHANGED customerVars
    /\ timers' = Tail(timers)
    /\ UNCHANGED <<now, appVars, formVars, popupVars, oracleVars>>

\* Buy More Items
BuyMore ==
    /\ ~isOwnerMode
    /\ purchaseComplete
    /\ purchaseComplete' = FALSE
    /\ UNCHANGED <<now, appVars, products, sales, cart, showCart,
                   isProcessing, timers, formVars, popupVars, audit, oracleVars>>

----------------------------------------------------------------------------
(* Inventory: the rows of the product table                                *)

\* The badge with a strict comparison
isLowStock_Strict(product) == JsLt(product.quantity, product.min_quantity)

\* The Low Stock badge of a row
isLowStock(product) == JsLe(product.quantity, product.min_quantity)

\* product.expiryDate && ...: undefined, 0 and NaN are falsy
Truthy(x) == x # 0 /\ x # NaN

\* The Expired badge of a row; t is what Date.now() returns
isExpired(product, t) ==
    Truthy(product.expiryDate) /\ product.expiryDate < t

\* The near-expiry test that forgets the expired products
isNearExpiry_AlsoExpired(product, t1, t2) ==
    Truthy(product.expiryDate) /\ product.expiryDate < t2 + 7 * DAY

\* The Expiring Soon badge of a row; t1 is what Date.now() returned to
\* isExpired, t2 what it returns here
isNearExpiry(product, t1, t2) ==
    /\ Truthy(product.expiryDate)
    /\ product.expiryDate < t2 + 7 * DAY
    /\ ~isExpired(product, t1)

----------------------------------------------------------------------------
(* Inventory: the product form                                             *)

\* The table's buttons are reachable while no overlay covers them
TableVisible == InventoryMounted /\ ~isModalOpen /\ ~priceSuggestion.isOpen
FormVisible  == InventoryMounted /\ isModalOpen /\ ~priceSuggestion.isOpen

openAddModal ==
    /\ TableVisible
    /\ modalMode' = "add"
    /\ currentProduct' = NewDraft(now)
    /\ isModalOpen' = TRUE
    /\ UNCHANGED <<now, appVars, products, sales, customerVars, timers,
                   popupVars, audit, oracleVars>>

openEditModal(product) ==
    /\ TableVisible
    /\ product \in Range(products)
    /\ modalMode' = "edit"
    /\ currentProduct' = product
    /\ isModalOpen' = TRUE
    /\ UNCHANGED <<now, appVars, products, sales, customerVars, timers,
                   popupVars, audit, oracleVars>>

\* The X and Cancel buttons of the form
closeModal ==
    /\ FormVisible
    /\ isModalOpen' = FALSE
    /\ UNCHANGED <<now, appVars, products, sales, customerVars, timers,
                   modalMode, currentProduct, popupVars, audit, oracleVars>>

\* The trash button of a table row: onDeleteProduct
deleteProduct(id) ==
    /\ TableVisible
    /\ \E i \in 1..Len(products) : products[i].id = id
    /\ products' = handleDeleteProduct(products, id)
    /\ UNCHANGED <<now, appVars, sales, customerVars, timers, formVars,
                   popupVars, audit, oracleVars>>

\* onChange of the name input; typing takes time
changeName(value) ==
    /\ FormVisible
    /\ value # currentProduct.name
    /\ Keystrokes < MaxKeystrokes
    /\ now' = now + 1
    /\ currentProduct' = [currentProduct EXCEPT !.name = value]
    /\ UNCHANGED <<appVars, products, sales, customerVars, timers,
                   isModalOpen, modalMode, popupVars, audit, oracleVars>>

\* onChange of the price input: parseFloat(e.target.value)
changePrice(value) ==
    /\ FormVisible
    /\ value # currentProduct.price
    /\ currentProduct' = [currentProduct EXCEPT !.price = value]
    /\ UNCHANGED <<now, appVars, products, sales, customerVars, timers,
                   isModalOpen, modalMode, popupVars, audit, oracleVars>>

\* onChange of the quantity input: parseInt(e.target.value), NaN for a
\* cleared field
changeQuantity(value) ==
    /\ FormVisible
    /\ value # currentProduct.quantity
    /\ currentProduct' = [currentProduct EXCEPT !.quantity = value]
    /\ UNCHANGED <<now, appVars, products, sales, customerVars, timers,
                   isModalOpen, modalMode, popupVars, audit, oracleVars>>

\* The machine select with an option for a machine that does not exist
MachineOptions_Unknown == MachineIds \cup {"m9"}

\* The options of the machine select that can be chosen: machines.map(...);
\* the empty option is disabled
MachineOptions == MachineIds

\* onChange of the machine select
changeMachineId(value) ==
    /\ FormVisible
    /\ value \in MachineOptions
    /\ value # currentProduct.machineId
    /\ currentProduct' = [currentProduct EXCEPT !.machineId = value]
    /\ UNCHANGED <<now, appVars, products, sales, customerVars, timers,
                   isModalOpen, modalMode, popupVars, audit, oracleVars>>

\* onChange of the date input: new Date(e.target.value).getTime(), NaN for
\* a cleared field
changeExpiryDate(value) ==
    /\ FormVisible
    /\ value # currentProduct.expiryDate
    /\ currentProduct' = [currentProduct EXCEPT !.expiryDate = value]
    /\ UNCHANGED <<now, appVars, products, sales, customerVars, timers,
                   isModalOpen, modalMode, popupVars, audit, oracleVars>>

\* The browser's constraint validation of the form, which runs before the
\* submit event: name and machine are required, the number inputs have
\* min="0"; a number input that shows NaN is empty, and an empty input
\* that is not required is valid.
MinZero(x) == x = NaN \/ x >= 0

FormValid(d) ==
    /\ d.name # ""
    /\ d.machineId # ""
    /\ MinZero(d.price)
    /\ MinZero(d.cost)
    /\ MinZero(d.quantity)
    /\ MinZero(d.min_quantity)

\* Number(x) of a field that already holds a number
Number(x) == x

ProductToAdd(d, t) ==
    [id |-> "p-" \o ToString(t),
     name |-> d.name,
     machineId |-> d.machineId,
     price |-> Number(d.price),
     cost |-> Number(d.cost),
     quantity |-> Number(d.quantity),
     min_quantity |-> Number(d.min_quantity),
     expiryDate |-> IF d.expiryDate # 0 /\ d.expiryDate # NaN
                    THEN d.expiryDate ELSE t + 30 * DAY]

\* A submit that checks the numbers only
SubmitRejected_NumbersOnly(d) ==
    ~(MinZero(d.price) /\ MinZero(d.cost) /\ MinZero(d.quantity)
        /\ MinZero(d.min_quantity))

\* The click on Save is refused: by the browser's validation of the form,
\* which then does not call onSubmit, or by the handler's own check of name
\* and machineId, which alerts and returns
SubmitRejected(d) == ~FormValid(d) \/ d.name = "" \/ d.machineId = ""

\* The Save button: the submit of the form
handleModalSubmit ==
    /\ FormVisible
    /\ IF SubmitRejected(currentProduct)
       THEN /\ audit.rejected < MaxRejected
            /\ audit' = [audit EXCEPT !.rejected = audit.rejected + 1]
            /\ UNCHANGED <<products, isModalOpen>>
       ELSE /\ IF modalMode = "add"
               THEN /\ Len(products) < MaxProducts
                    /\ products' = handleAddProduct(products,
                                        ProductToAdd(currentProduct, now))
               ELSE products' = handleUpdateProduct(products, currentProduct)
            /\ isModalOpen' = FALSE
            /\ UNCHANGED audit
    /\ UNCHANGED <<now, appVars, sales, customerVars, timers, modalMode,
                   currentProduct, popupVars, oracleVars>>

----------------------------------------------------------------------------
(* Inventory: the price-suggestion popup                                   *)

\* The wand button of the form
handleGetPriceSuggestion ==
    /\ FormVisible
    /\ currentProduct.name # ""
    /\ Len(requests) < MaxRequests
    /\ priceSuggestion' = [isOpen |-> TRUE, product |-> <<currentProduct>>,
                           suggestedPrice |-> 0, reasoning |-> "",
                           isLoading |-> TRUE]
    /\ requests' = Append(requests, [product |-> currentProduct])
    /\ UNCHANGED <<now, appVars, products, sales, customerVars, timers,
                   formVars, audit, oracleVars>>

RemoveAt(s, i) == [j \in 1..(Len(s) - 1) |-> IF j < i THEN s[j] ELSE s[j + 1]]

\* The continuation after await suggestOptimalPrice(...): result is the
\* suggested price of a result object, or null for the failure value
Null == 0 - 1

\* The continuation whose failure branch forgets the loading flag
SuggestionResult_StaysLoading(prev, product, result) ==
    IF result # Null
    THEN [isOpen |-> TRUE, product |-> <<product>>,
          suggestedPrice |-> result, reasoning |-> "reasoning",
          isLoading |-> FALSE]
    ELSE [prev EXCEPT !.reasoning = FailedText]

SuggestionResult(prev, product, result) ==
    IF result # Null
    THEN [isOpen |-> TRUE, product |-> <<product>>,
          suggestedPrice |-> result, reasoning |-> "reasoning",
          isLoading |-> FALSE]
    ELSE [prev EXCEPT !.isLoading = FALSE, !.reasoning = FailedText]

\* The continuation that writes the suggested price into the catalog
\* itself
suggestOptimalPriceReturns_AutoApply(i, result) ==
    /\ i \in 1..Len(requests)
    /\ priceSuggestion' =
          SuggestionResult(priceSuggestion, requests[i].product, result)
    /\ requests' = RemoveAt(requests, i)
    /\ products' =
          IF result # Null
          THEN [k \in 1..Len(products) |->
                  IF products[k].id = requests[i].product.id
                  THEN [products[k] EXCEPT !.price = result]
                  ELSE products[k]]
          ELSE products
    /\ UNCHANGED <<now, appVars, sales, customerVars, timers,
                   formVars, audit, oracleVars>>

suggestOptimalPriceReturns(i, result) ==
    /\ i \in 1..Len(requests)
    /\ priceSuggestion' =
          SuggestionResult(priceSuggestion, requests[i].product, result)
    /\ requests' = RemoveAt(requests, i)
    /\ UNCHANGED <<now, appVars, products, sales, customerVars, timers,
                   formVars, audit, oracleVars>>

\* The X button of the popup
dismissPopup ==
    /\ InventoryMounted
    /\ priceSuggestion.isOpen
    /\ priceSuggestion' = [priceSuggestion EXCEPT !.isOpen = FALSE]
    /\ UNCHANGED <<now, appVars, products, sales, customerVars, timers,
                   formVars, requests, audit, oracleVars>>

\* The Apply Suggestion button, rendered in the popup when it is not
\* loading
ApplyVisible == priceSuggestion.isOpen /\ ~priceSuggestion.isLoading

applySuggestedPrice ==
    /\ InventoryMounted
    /\ ApplyVisible
    /\ IF priceSuggestion.product # <<>>
       THEN /\ currentProduct' = [currentProduct EXCEPT
                                    !.price = priceSuggestion.suggestedPrice]
            /\ priceSuggestion' = [priceSuggestion EXCEPT !.isOpen = FALSE]
       ELSE UNCHANGED <<currentProduct, priceSuggestion>>
    /\ UNCHANGED <<now, appVars, products, sales, customerVars, timers,
                   isModalOpen, modalMode, requests, audit, oracleVars>>

\* What the external model answers to a price-suggestion call: the call is
\* rejected, or it resolves with a payload that is JSON or not and has
\* these keys
SuggestionPayloads ==
    { [rejected |-> TRUE, isJson |-> FALSE, keys |-> {}, suggestedPrice |-> 0],
      [rejected |-> FALSE, isJson |-> FALSE, keys |-> {}, suggestedPrice |-> 0],
      [rejected |-> FALSE, isJson |-> TRUE, keys |-> {"reasoning"},
       suggestedPrice |-> 0],
      [rejected |-> FALSE, isJson |-> TRUE,
       keys |-> {"suggestedPrice", "reasoning"}, suggestedPrice |-> 275] }

\* The price-suggestion operation of the adapter: the suggested price of
\* a payload of the shape {suggestedPrice, reasoning}, the failure value
\* for everything else
suggestOptimalPrice(payload) ==
    IF payload.rejected THEN Null
    ELSE IF ~payload.isJson THEN Null
    ELSE IF ~({"suggestedPrice", "reasoning"} \subseteq payload.keys) THEN Null
    ELSE payload.suggestedPrice

\* The external call of request i settles with this payload
suggestOptimalPriceSettles(i, payload) ==
    /\ i \in 1..Len(requests)
    /\ "payload" \notin DOMAIN requests[i]
    /\ requests' = [requests EXCEPT ![i] = [product |-> requests[i].product,
                                            payload |-> payload]]
    /\ UNCHANGED <<now, appVars, products, sales, customerVars, timers,
                   formVars, priceSuggestion, audit, oracleVars>>

\* The adapter returns to handleGetPriceSuggestion
suggestOptimalPriceResolves(i) ==
    /\ i \in 1..Len(requests)
    /\ "payload" \in DOMAIN requests[i]
    /\ suggestOptimalPriceReturns(i, suggestOptimalPrice(requests[i].payload))

----------------------------------------------------------------------------
(* geminiService: the adapter of the external model                        *)

\* What a call of ai.models.generateContent can do: it has not settled
\* yet, it rejects, or it resolves with the text (or audio data) given
Pending == "<pending>"
Throws == "<throws>"

\* An exception that leaves an operation of the adapter
Thrown == "<thrown>"

InsightApology == "Sorry, I encountered an error analyzing your business data."
InsightEmpty == "I couldn't analyze the data at this moment."
ChatFallback == "I'm having trouble connecting to the VendNexus network."
ChatEmpty == "I'm not sure how to respond to that."
SendError == "Sorry, I encountered an error connecting to the AI service."

\* response.candidates?.[0]...inlineData?.data is absent
NoData == "<no data>"
\* The ArrayBuffer | null of generateSpeechFromText, audio?: of the chat
NullAudio == "<null>"
Undefined == "<undefined>"

\* What the external calls are taken to answer
ContentOutcomes == {Throws, "", "Restock p2."}
GroundingInputs == {"", "https://example.com"}
SpeechOutcomes == {Throws, NoData, "UklGRg=="}

\* What decoding and playing response.audio does: the sound starts, or
\* the AudioContext or decodeAudioData throws
PlaybackOutcomes == {"plays", Throws}

\* contextData.sales.slice(-50)
RecentSales_Last(contextSales) ==
    SubSeq(contextSales,
           IF Len(contextSales) < RecentSalesLimit THEN 1
           ELSE Len(contextSales) - RecentSalesLimit + 1,
           Len(contextSales))

\* contextData.sales.slice(0, 50)
RecentSales(contextSales) ==
    SubSeq(contextSales, 1,
           IF Len(contextSales) < RecentSalesLimit THEN Len(contextSales)
                                                   ELSE RecentSalesLimit)

\* generateBusinessInsight without its try/catch
generateBusinessInsight_NoCatch(outcome) ==
    IF outcome = Throws THEN Thrown
    ELSE IF outcome = "" THEN InsightEmpty ELSE outcome

generateBusinessInsight(outcome) ==
    IF outcome = Throws THEN InsightApology
    ELSE IF outcome = "" THEN InsightEmpty ELSE outcome

generateSpeechFromText(outcome) ==
    IF outcome = Throws THEN NullAudio
    ELSE IF outcome # NoData THEN outcome ELSE NullAudio

\* chatWithAgent: content and grounding are what generateContent resolved
\* with, speech what the text-to-speech call did
chatWithAgent(content, grounding, speech) ==
    IF content = Throws
    THEN [text |-> ChatFallback, audio |-> Undefined]
    ELSE LET responseText == IF content = "" THEN ChatEmpty ELSE content
             audioBuffer == generateSpeechFromText(speech)
             finalResponse ==
                 IF grounding # ""
                 THEN responseText \o "\n\nSources:\n" \o grounding
                 ELSE responseText
         IN IF audioBuffer = Thrown
            THEN [text |-> ChatFallback, audio |-> Undefined]
            ELSE [text |-> finalResponse,
                  audio |-> IF audioBuffer = NullAudio THEN Undefined
                                                       ELSE audioBuffer]

----------------------------------------------------------------------------
(* Inventory: Smart Reorder                                                *)

handleSmartRestock ==
    /\ TableVisible
    /\ ~isAnalyzing
    /\ isAnalyzing' = TRUE
    /\ insights' = Append(insights,
                          [products |-> products, sales |-> RecentSales(<<>>),
                           outcome |-> Pending])
    /\ UNCHANGED <<now, appVars, products, sales, customerVars, timers,
                   formVars, popupVars, aiSuggestion, assistantVars, audit>>

\* generateContent of the insight call resolves or rejects
insightSettles(outcome) ==
    /\ Len(insights) > 0
    /\ Head(insights).outcome = Pending
    /\ insights' = <<[Head(insights) EXCEPT !.outcome = outcome]>>
                      \o Tail(insights)
    /\ UNCHANGED <<now, appVars, products, sales, customerVars, timers,
                   formVars, popupVars, isAnalyzing, aiSuggestion,
                   assistantVars, audit>>

\* The continuation of handleSmartRestock after its await
generateBusinessInsightReturns ==
    /\ Len(insights) > 0
    /\ Head(insights).outcome # Pending
    /\ LET insight == generateBusinessInsight(Head(insights).outcome)
       IN IF insight = Thrown
          THEN UNCHANGED <<aiSuggestion, isAnalyzing>>
          ELSE /\ aiSuggestion' = <<insight>>
               /\ isAnalyzing' = FALSE
    /\ insights' = Tail(insights)
    /\ UNCHANGED <<now, appVars, products, sales, customerVars, timers,
                   formVars, popupVars, assistantVars, audit>>

\* The X of the suggestion box
dismissInsight ==
    /\ TableVisible
    /\ aiSuggestion # <<>>
    /\ aiSuggestion' = <<>>
    /\ UNCHANGED <<now, appVars, products, sales, customerVars, timers,
                   formVars, popupVars, isAnalyzing, insights,
                   assistantVars, audit>>

----------------------------------------------------------------------------
(* AIAssistant: the expiry analysis                                        *)

weekInMs == 7 * DAY

\* t is the `now` of the render
expiredProducts(p, t) ==
    FilterSeq(p, {x \in Range(p) :
                    Truthy(x.expiryDate) /\ x.expiryDate < t})

nearExpiryProducts(p, t) ==
    FilterSeq(p, {x \in Range(p) :
                    /\ Truthy(x.expiryDate)
                    /\ x.expiryDate >= t
                    /\ x.expiryDate <= t + weekInMs})

----------------------------------------------------------------------------
(* AIAssistant: the chat                                                   *)

\* input.trim()
Trim(text) == IF text = " " THEN "" ELSE text

Sends == (Len(messages) - 1) \div 2

\* setMessages(prev => [message, ...prev])
SetMessages_Prepend(prev, message) == <<message>> \o prev

\* setMessages(prev => [...prev, message])
SetMessages(prev, message) == Append(prev, message)

\* The history taken after the user message was appended
ChatHistory_WithCurrent(closureMessages, userMsg) ==
    [i \in 1..(Len(closureMessages) + 1) |->
        IF i <= Len(closureMessages)
        THEN [role |-> closureMessages[i].role, text |-> closureMessages[i].text]
        ELSE [role |-> userMsg.role, text |-> userMsg.text]]

\* messages.map(m => ({ role: m.role, text: m.text })): messages is the
\* transcript of the render that created the handler, without userMsg
ChatHistory(closureMessages, userMsg) ==
    [i \in 1..Len(closureMessages) |->
        [role |-> closureMessages[i].role, text |-> closureMessages[i].text]]

\* The first entry of every request: the system instruction with the
\* snapshot
SystemTurn == [role |-> "user", text |-> "System Instruction"]

\* The contents chatWithAgent sends to the model
ChatContents(history, currentMessage) ==
    <<SystemTurn>>
       \o [i \in 1..Len(history) |->
             [role |-> history[i].role, text |-> history[i].text]]
       \o <<[role |-> "user", text |-> currentMessage]>>

\* handleSend that does not look at isLoading
handleSend_WhileLoading(input) ==
    /\ isOwnerMode
    /\ Sends < MaxSends
    /\ IF Trim(input) = ""
       THEN UNCHANGED <<messages, isLoading, chats>>
       ELSE /\ messages' = SetMessages(messages,
                                       [role |-> "user", text |-> input])
            /\ isLoading' = TRUE
            /\ LET userMsg == [role |-> "user", text |-> input]
                   history == ChatHistory(messages, userMsg)
               IN chats' = Append(chats,
                             [history |-> history,
                              currentMessage |-> userMsg.text,
                              contents |-> ChatContents(history, userMsg.text),
                              content |-> Pending, grounding |-> "",
                              speech |-> Pending])
    /\ UNCHANGED <<now, appVars, products, sales, customerVars, timers,
                   formVars, popupVars, restockVars, audit>>

handleSend(input) ==
    /\ isOwnerMode
    /\ Sends < MaxSends
    /\ IF Trim(input) = "" \/ isLoading
       THEN UNCHANGED <<messages, isLoading, chats>>
       ELSE /\ messages' = SetMessages(messages,
                                       [role |-> "user", text |-> input])
            /\ isLoading' = TRUE
            /\ LET userMsg == [role |-> "user", text |-> input]
                   history == ChatHistory(messages, userMsg)
               IN chats' = Append(chats,
                             [history |-> history,
                              currentMessage |-> userMsg.text,
                              contents |-> ChatContents(history, userMsg.text),
                              content |-> Pending, grounding |-> "",
                              speech |-> Pending])
    /\ UNCHANGED <<now, appVars, products, sales, customerVars, timers,
                   formVars, popupVars, restockVars, audit>>

\* generateContent of the chat call resolves or rejects
chatContentSettles(outcome, grounding) ==
    /\ Len(chats) > 0
    /\ Head(chats).content = Pending
    /\ chats' = <<[Head(chats) EXCEPT !.content = outcome,
                                      !.grounding = grounding]>> \o Tail(chats)
    /\ UNCHANGED <<now, appVars, products, sales, customerVars, timers,
                   formVars, popupVars, restockVars, messages, isLoading,
                   audit>>

\* The text-to-speech call made for the reply resolves or rejects
chatSpeechSettles(outcome) ==
    /\ Len(chats) > 0
    /\ Head(chats).content \notin {Pending, Throws}
    /\ Head(chats).speech = Pending
    /\ chats' = <<[Head(chats) EXCEPT !.speech = outcome]>> \o Tail(chats)
    /\ UNCHANGED <<now, appVars, products, sales, customerVars, timers,
                   formVars, popupVars, restockVars, messages, isLoading,
                   audit>>

\* The continuation of handleSend whose playback has no try/catch of its
\* own: a playback failure reaches the outer catch
handleSendContinues_AudioUncaught(prev, response, playback) ==
    LET modelMsg == [role |-> "model", text |-> response.text]
        errorMsg == [role |-> "model", text |-> SendError]
    IN IF response.text = Thrown
       THEN [messages |-> SetMessages(prev, errorMsg), isLoading |-> FALSE]
       ELSE IF response.audio # Undefined /\ playback = Throws
       THEN [messages |-> SetMessages(SetMessages(prev, modelMsg), errorMsg),
             isLoading |-> FALSE]
       ELSE [messages |-> SetMessages(prev, modelMsg), isLoading |-> FALSE]

\* The continuation of handleSend whose failure path forgets the loading
\* flag
handleSendContinues_NoFinally(prev, response, playback) ==
    LET modelMsg == [role |-> "model", text |-> response.text]
        errorMsg == [role |-> "model", text |-> SendError]
    IN IF response.text = Thrown
       THEN [messages |-> SetMessages(prev, errorMsg), isLoading |-> TRUE]
       ELSE IF response.audio # Undefined /\ playback = Throws
       THEN [messages |-> SetMessages(prev, modelMsg), isLoading |-> TRUE]
       ELSE [messages |-> SetMessages(prev, modelMsg), isLoading |-> FALSE]

\* The continuation of handleSend after await chatWithAgent(...): the
\* transcript and the loading flag it leaves.  try { append the reply;
\* if (response.audio) try { decode and play } catch { log } }
\* catch { append the error text } finally { setIsLoading(false) }
handleSendContinues(prev, response, playback) ==
    LET modelMsg == [role |-> "model", text |-> response.text]
        errorMsg == [role |-> "model", text |-> SendError]
    IN IF response.text = Thrown
       THEN [messages |-> SetMessages(prev, errorMsg), isLoading |-> FALSE]
       ELSE IF response.audio # Undefined /\ playback = Throws
       THEN [messages |-> SetMessages(prev, modelMsg), isLoading |-> FALSE]
       ELSE [messages |-> SetMessages(prev, modelMsg), isLoading |-> FALSE]

\* chatWithAgent has returned and handleSend continues; playback is what
\* playing the audio of the reply does, if it has audio
chatWithAgentReturns(playback) ==
    /\ Len(chats) > 0
    /\ LET c == Head(chats)
       IN /\ c.content # Pending
          /\ c.content = Throws \/ c.speech # Pending
          /\ LET response == chatWithAgent(c.content, c.grounding, c.speech)
                 after == handleSendContinues(messages, response, playback)
             IN /\ messages' = after.messages
                /\ isLoading' = after.isLoading
                /\ audit' = [audit EXCEPT
                               !.response = <<response>>,
                               !.playback = IF response.audio # Undefined
                                            THEN playback ELSE ""]
    /\ chats' = Tail(chats)
    /\ UNCHANGED <<now, appVars, products, sales, customerVars, timers,
                   formVars, popupVars, restockVars>>

----------------------------------------------------------------------------
(* Specification                                                           *)

\* Layout, the clock and the timers
AppNext ==
    \/ TimePasses
    \/ toggleMode
    \/ \E tab \in TabInputs : setActiveTab(tab)

CustomerNext ==
    \/ \E p \in Range(products) : addToCart(p)
    \/ \E i \in 1..Len(cart) : removeFromCart(cart[i].id)
    \/ \E b \in BOOLEAN : setShowCart(b)
    \/ \E method \in PaymentInputs : handleCheckout(method)
    \/ CheckoutTimer
    \/ BuyMore

\* The table and the product form
FormNext ==
    \/ \E p \in Range(products) : openEditModal(p)
    \/ closeModal
    \/ handleModalSubmit

\* Smart Reorder
RestockNext ==
    \/ handleSmartRestock
    \/ \E outcome \in ContentOutcomes : insightSettles(outcome)
    \/ generateBusinessInsightReturns
    \/ dismissInsight

\* The chat of the assistant
ChatNext ==
    \/ \E input \in ChatInputs : handleSend(input)
    \/ \E outcome \in ContentOutcomes, grounding \in GroundingInputs :
          chatContentSettles(outcome, grounding)
    \/ \E outcome \in SpeechOutcomes : chatSpeechSettles(outcome)
    \/ \E playback \in PlaybackOutcomes : chatWithAgentReturns(playback)

\* The whole program
Next ==
    \/ AppNext
    \/ CustomerNext
    \/ FormNext
    \/ openAddModal
    \/ \E p \in Range(products) : deleteProduct(p.id)
    \/ \E value \in NameInputs : changeName(value)
    \/ \E value \in PriceInputs : changePrice(value)
    \/ \E value \in QuantityInputs : changeQuantity(value)
    \/ \E value \in MachineInputs : changeMachineId(value)
    \/ \E value \in ExpiryInputs : changeExpiryDate(value)
    \/ handleGetPriceSuggestion
    \/ \E i \in 1..Len(requests), result \in SuggestedPrices \cup {Null} :
          suggestOptimalPriceReturns(i, result)
    \/ dismissPopup
    \/ applySuggestedPrice
    \/ RestockNext
    \/ ChatNext

Spec == Init /\ [][Next]_vars

\* The shop: one checkout, and the owner deleting and repricing products
\* around it
NextShop ==
    \/ AppNext
    \/ \E p \in Range(products) : addToCart(p)
    \/ \E i \in 1..Len(cart) : removeFromCart(cart[i].id)
    \/ \E b \in BOOLEAN : setShowCart(b)
    \/ \E method \in PaymentInputs :
          audit.n + Len(timers) < MaxShopCheckouts /\ handleCheckout(method)
    \/ CheckoutTimer
    \/ BuyMore
    \/ FormNext
    \/ \E p \in Range(products) : deleteProduct(p.id)
    \/ \E value \in PriceInputs : changePrice(value)

SpecShop == Init /\ [][NextShop]_vars

\* The ledger: one checkout, and the owner renaming and deleting products
\* around it
NextLedger ==
    \/ AppNext
    \/ \E p \in Range(products) : addToCart(p)
    \/ \E i \in 1..Len(cart) : removeFromCart(cart[i].id)
    \/ \E b \in BOOLEAN : setShowCart(b)
    \/ \E method \in PaymentInputs :
          audit.n + Len(timers) < MaxShopCheckouts /\ handleCheckout(method)
    \/ CheckoutTimer
    \/ BuyMore
    \/ FormNext
    \/ \E p \in Range(products) : deleteProduct(p.id)
    \/ \E value \in NameInputs : changeName(value)

SpecLedger == Init /\ [][NextLedger]_vars

\* The rush: customers only, checkouts pending at the same time
NextRush == AppNext \/ CustomerNext

SpecRush == Init /\ [][NextRush]_vars

\* The owner's side: the table and the product form
NextForm ==
    \/ toggleMode
    \/ \E tab \in TabInputs : setActiveTab(tab)
    \/ FormNext
    \/ openAddModal
    \/ \E p \in Range(products) : deleteProduct(p.id)
    \/ \E value \in NameInputs : changeName(value)
    \/ \E value \in PriceInputs : changePrice(value)
    \/ \E value \in QuantityInputs : changeQuantity(value)

SpecForm == Init /\ [][NextForm]_vars

\* The price-suggestion popup over the product form
NextPopup ==
    \/ \E tab \in TabInputs : setActiveTab(tab)
    \/ FormNext
    \/ openAddModal
    \/ \E value \in NameInputs : changeName(value)
    \/ handleGetPriceSuggestion
    \/ \E i \in 1..Len(requests), result \in SuggestedPrices \cup {Null} :
          suggestOptimalPriceReturns(i, result)
    \/ dismissPopup
    \/ applySuggestedPrice

SpecPopup == Init /\ [][NextPopup]_vars

\* The price-suggestion call from request to answer, every call answered
\* in the end
NextSuggest ==
    \/ \E tab \in TabInputs : setActiveTab(tab)
    \/ \E p \in Range(products) : openEditModal(p)
    \/ closeModal
    \/ handleGetPriceSuggestion
    \/ \E i \in 1..Len(requests), payload \in SuggestionPayloads :
          suggestOptimalPriceSettles(i, payload)
    \/ \E i \in 1..Len(requests) : suggestOptimalPriceResolves(i)
    \/ dismissPopup
    \/ applySuggestedPrice

SpecSuggest ==
    /\ Init
    /\ [][NextSuggest]_vars
    /\ WF_vars(\E i \in 1..Len(requests), payload \in SuggestionPayloads :
                   suggestOptimalPriceSettles(i, payload))
    /\ WF_vars(\E i \in 1..Len(requests) : suggestOptimalPriceResolves(i))

\* The machines of the catalog's products under additions, edits,
\* deletions and checkouts
NextMachines ==
    \/ TimePasses
    \/ toggleMode
    \/ \E tab \in TabInputs : setActiveTab(tab)
    \/ FormNext
    \/ openAddModal
    \/ \E p \in Range(products) : deleteProduct(p.id)
    \/ modalMode = "add" /\ changeName("Cola Zero")
    \/ \E value \in MachineInputs : changeMachineId(value)
    \/ \E p \in Range(products) : Len(cart) = 0 /\ addToCart(p)
    \/ setShowCart(TRUE)
    \/ audit.n + Len(timers) < MaxShopCheckouts /\ handleCheckout("UPI")
    \/ CheckoutTimer

SpecMachines == Init /\ [][NextMachines]_vars

\* The chat from send to reply, every call of the external model settling
\* in the end and every continuation run
NextChat ==
    \/ toggleMode
    \/ \E tab \in TabInputs : setActiveTab(tab)
    \/ ChatNext

SpecChat ==
    /\ Init
    /\ [][NextChat]_vars
    /\ WF_vars(\E outcome \in ContentOutcomes, grounding \in GroundingInputs :
                   chatContentSettles(outcome, grounding))
    /\ WF_vars(\E outcome \in SpeechOutcomes : chatSpeechSettles(outcome))
    /\ WF_vars(\E playback \in PlaybackOutcomes :
                   chatWithAgentReturns(playback))

\* The expiry dates of the catalog as the clock advances
NextExpiry ==
    \/ TimePasses
    \/ \E tab \in TabInputs : setActiveTab(tab)
    \/ FormNext
    \/ openAddModal
    \/ \E value \in NameInputs : changeName(value)
    \/ \E value \in ExpiryInputs : changeExpiryDate(value)

SpecExpiry == Init /\ [][NextExpiry]_vars

\* The ledger of 50 mock sales and the checkouts added to it
NextMockSales ==
    \/ TimePasses
    \/ toggleMode
    \/ \E p \in Range(products) : addToCart(p)
    \/ setShowCart(TRUE)
    \/ handleCheckout("UPI")
    \/ CheckoutTimer
    \/ BuyMore

SpecMockSales == InitMockSales /\ [][NextMockSales]_vars

\* The adapter and its two callers, Smart Reorder and the chat
NextAdapter ==
    \/ toggleMode
    \/ \E tab \in TabInputs : setActiveTab(tab)
    \/ RestockNext
    \/ ChatNext

SpecAdapter == Init /\ [][NextAdapter]_vars

\* The three calls of the external model next to the product form: one
\* price suggestion, one chat message and Smart Reorder, each answered or
\* failing
NextOracle ==
    \/ toggleMode
    \/ \E tab \in TabInputs : setActiveTab(tab)
    \/ FormNext
    \/ Len(requests) < MaxOracleCalls /\ handleGetPriceSuggestion
    \/ \E i \in 1..Len(requests), result \in SuggestedPrices \cup {Null} :
          suggestOptimalPriceReturns(i, result)
    \/ dismissPopup
    \/ applySuggestedPrice
    \/ handleSmartRestock
    \/ \E outcome \in {Throws, "Restock p2."} : insightSettles(outcome)
    \/ generateBusinessInsightReturns
    \/ \E input \in ChatInputs :
          Sends < MaxOracleCalls /\ handleSend(input)
    \/ \E outcome \in {Throws, "Restock p2."} :
          chatContentSettles(outcome, "")
    \/ chatSpeechSettles(NoData)
    \/ chatWithAgentReturns("plays")

SpecOracle == Init /\ [][NextOracle]_vars

----------------------------------------------------------------------------
(* Properties                                                              *)

\* The records the last applied checkout put into the ledger
Created == SubSeq(sales, 1, Len(sales) - Len(audit.priorSales))

\* The profit of a cart, line by line
RECURSIVE CartProfit(_)
CartProfit(c) ==
    IF c = <<>> THEN 0
    ELSE (Head(c).price - Head(c).cost) * Head(c).cartQuantity
         + CartProfit(Tail(c))

\* C1: the revenue of the records a checkout creates sums to the cart's
\* sum of price x cartQuantity, and their profit to the cart's sum of
\* (price - cost) x cartQuantity.
C1_CheckoutSums ==
    audit.n > 0 =>
        /\ SumRevenue(Created) = cartTotal(audit.cart)
        /\ SumProfit(Created) = CartProfit(audit.cart)

\* A checkout of two lines, one of them of two units, has been applied
C1_Witness ==
    /\ audit.n > 0
    /\ Len(audit.cart) = 2
    /\ \E i \in 1..2 : audit.cart[i].cartQuantity = 2
    /\ Len(Created) = 2

\* C2: when a checkout is applied, every product of its cart that is in
\* the live catalog ends with quantity max(0, pre_quantity - cartQuantity),
\* pre_quantity being its quantity in the live catalog just before.
C2_QuantityFromLiveCatalog ==
    [][audit'.n = audit.n + 1 =>
         \A i \in 1..Len(audit'.cart) : \A k \in 1..Len(products) :
            products[k].id = audit'.cart[i].id =>
               \E m \in 1..Len(products') :
                  /\ products'[m].id = products[k].id
                  /\ products'[m].quantity =
                        MathMax(0, JsSub(products[k].quantity,
                                         audit'.cart[i].cartQuantity))]_vars

\* C3: every product of the catalog has quantity >= 0.
C3_QuantityNonNegative ==
    \A i \in 1..Len(products) : JsGe(products[i].quantity, 0)

\* C4: a record of the ledger stays in the ledger, unchanged, in every
\* later state, and the ledger never shrinks.
C4_LedgerAppendOnly ==
    [][/\ Len(sales') >= Len(sales)
       /\ \A i \in 1..Len(sales) :
             sales'[i + (Len(sales') - Len(sales))] = sales[i]]_vars

\* After a checkout, the ledger holds a sale whose product has since been
\* deleted and a sale whose product has since been renamed
C4_Witness ==
    /\ audit.n > 0
    /\ \E i \in 1..Len(sales) :
          \A k \in 1..Len(products) : products[k].id # sales[i].productId
    /\ \E i \in 1..Len(sales) : \E k \in 1..Len(products) :
          /\ products[k].id = sales[i].productId
          /\ products[k].name # sales[i].productName

\* C5: a checkout of n lines adds exactly n records, in cart order, each
\* with its line's quantity, product id, product name and machine, the
\* chosen payment method and one common timestamp.
C5_OneRecordPerLine ==
    audit.n > 0 =>
        /\ Len(Created) = Len(audit.cart)
        /\ \A i \in 1..Len(audit.cart) :
              /\ Created[i].quantity = audit.cart[i].cartQuantity
              /\ Created[i].productId = audit.cart[i].id
              /\ Created[i].productName = audit.cart[i].name
              /\ Created[i].machineId = audit.cart[i].machineId
              /\ Created[i].paymentMethod = audit.method
              /\ Created[i].timestamp = audit.timestamp

\* A second checkout has been applied, of two lines, the first of two units
C5_Witness ==
    /\ audit.n = 2
    /\ Len(audit.cart) = 2
    /\ audit.cart[1].cartQuantity = 2
    /\ audit.method = "Cash"

\* C6: the ids of the records of the ledger are pairwise distinct.
C6_SaleIdsDistinct ==
    \A i, j \in 1..Len(sales) : i # j => sales[i].id # sales[j].id

\* C7: revenue and profit of a record come from the price and cost the
\* cart line carries, whatever the live catalog says when the checkout is
\* applied.
C7_CapturedPrice ==
    audit.n > 0 =>
        \A i \in 1..Len(audit.cart) :
           /\ i <= Len(Created)
           /\ Created[i].revenue =
                 audit.cart[i].price * audit.cart[i].cartQuantity
           /\ Created[i].profit =
                 (audit.cart[i].price - audit.cart[i].cost)
                    * audit.cart[i].cartQuantity

\* A checkout was applied whose product had another price in the live
\* catalog at that moment than on the cart line
C7_Witness ==
    /\ audit.n > 0
    /\ \E i \in 1..Len(audit.cart) : \E k \in 1..Len(audit.live) :
          /\ audit.live[k].id = audit.cart[i].id
          /\ audit.live[k].price # audit.cart[i].price
          /\ Created[i].revenue # audit.live[k].price * Created[i].quantity

\* C8: with the filter 'all', revenue, profit and units of the dashboard
\* are the seed's totals plus the totals of every applied checkout.
C8_AggregatesAdditive ==
    /\ totalRevenue(sales, "all")
          = totalRevenue(INITIAL_SALES, "all") + audit.revenue
    /\ totalProfit(sales, "all")
          = totalProfit(INITIAL_SALES, "all") + audit.profit
    /\ totalItemsSold(sales, "all")
          = totalItemsSold(INITIAL_SALES, "all") + audit.units

\* Two checkouts have been applied
C8_Witness ==
    /\ audit.n = 2
    /\ audit.units >= 3
    /\ Len(sales) >= Len(INITIAL_SALES) + 2

\* The states of the popup
PopupState ==
    IF ~priceSuggestion.isOpen THEN "Idle"
    ELSE IF priceSuggestion.isLoading THEN "Loading"
    ELSE IF priceSuggestion.reasoning = FailedText THEN "Failed"
    ELSE "Ready"

\* C9: the apply action is possible only in state Ready.
C9_ApplyOnlyWhenReady ==
    (InventoryMounted /\ ApplyVisible) => PopupState = "Ready"

PopupTransitions ==
    { <<"Idle", "Loading">>, <<"Loading", "Ready">>, <<"Loading", "Failed">>,
      <<"Loading", "Idle">>, <<"Ready", "Idle">>, <<"Failed", "Idle">> }

\* C10: the popup moves Idle -> Loading -> {Ready | Failed} and back to
\* Idle on dismissal, and makes no other transition; a popup dismissed
\* while loading stays closed when the result arrives.
C10_PopupStateMachine ==
    [][PopupState' # PopupState =>
          <<PopupState, PopupState'>> \in PopupTransitions]_vars

\* C11: a step that changes the popup, the outstanding calls, Smart
\* Reorder or the chat changes neither the catalog nor the ledger; a
\* suggested price enters the draft only by the apply button (or with a
\* product that already has it) and the catalog only by the submit of the
\* form whose draft holds it.
C11_NoAutoApply ==
    [][/\ (popupVars' # popupVars \/ oracleVars' # oracleVars)
            => (products' = products /\ sales' = sales)
       /\ \A k \in 1..Len(products') :
             (/\ products'[k].price \in SuggestedPrices
              /\ k <= Len(products) => products[k].price # products'[k].price)
             => /\ FormVisible
                /\ ~isModalOpen'
                /\ currentProduct.price = products'[k].price
       /\ (/\ InventoryMounted'
           /\ currentProduct'.price \in SuggestedPrices
           /\ currentProduct.price # currentProduct'.price)
            => \/ /\ ApplyVisible
                  /\ priceSuggestion.suggestedPrice = currentProduct'.price
                  /\ ~priceSuggestion'.isOpen
               \/ /\ TableVisible
                  /\ \E p \in Range(products) : currentProduct' = p]_vars

\* A suggested price is in the catalog, after the answers of a Smart
\* Reorder call and of a chat message arrived as well
C11_Witness ==
    /\ \E k \in 1..Len(products) : products[k].price \in SuggestedPrices
    /\ aiSuggestion # <<>>
    /\ Len(messages) = 3
    /\ requests = <<>>

\* The text the chat's model call resolved with, as chatWithAgent returns it
ModelText(c) ==
    LET responseText == IF c.content = "" THEN ChatEmpty ELSE c.content
    IN IF c.grounding # "" THEN responseText \o "\n\nSources:\n" \o c.grounding
                           ELSE responseText

\* C12: every operation of the adapter hands its caller a value: Smart
\* Reorder gets the apology string when the call fails and a text
\* otherwise; the chat gets the fallback text without audio when the model
\* call fails, the model's text without audio when only the speech call
\* fails or yields nothing, and text with audio otherwise; no failure
\* reaches the caller.
C12_AdapterAlwaysReturns ==
    [][/\ (/\ Len(insights) > 0
           /\ Head(insights).outcome # Pending
           /\ insights' = Tail(insights)
           /\ InventoryMounted')
            => /\ aiSuggestion' =
                    << IF Head(insights).outcome = Throws THEN InsightApology
                       ELSE IF Head(insights).outcome = "" THEN InsightEmpty
                       ELSE Head(insights).outcome >>
               /\ ~isAnalyzing'
       /\ (/\ Len(chats) > 0
           /\ chats' = Tail(chats)
           /\ isOwnerMode' = isOwnerMode)
            => LET c == Head(chats)
                   r == Head(audit'.response)
               IN /\ audit'.response # <<>>
                  /\ r.text # Thrown
                  /\ c.content = Throws
                       => r = [text |-> ChatFallback, audio |-> Undefined]
                  /\ c.content # Throws => r.text = ModelText(c)
                  /\ (c.content # Throws /\ c.speech \in {Throws, NoData})
                       => r.audio = Undefined
                  /\ (c.content # Throws /\ c.speech \notin {Throws, NoData})
                       => r.audio = c.speech
                  /\ Last(messages').text = r.text
                  /\ ~isLoading']_vars

\* Smart Reorder got the apology, one chat message got the fallback text
\* and the next one the model's text although its speech call gave no audio
C12_Witness ==
    /\ aiSuggestion = <<InsightApology>>
    /\ Len(messages) = 5
    /\ messages[3].text = ChatFallback
    /\ audit.response = <<[text |-> "Restock p2.", audio |-> Undefined]>>

\* C13: a payload that is not JSON or lacks a key of the shape makes the
\* adapter return the failure value; when that value reaches a popup that
\* is loading, the popup stops loading, shows the failure text and keeps
\* suggestedPrice 0; and a popup that is loading always stops loading.
C13_FailureEndsLoading ==
    /\ [][\A i \in 1..Len(requests) :
            (/\ "payload" \in DOMAIN requests[i]
             /\ requests' = RemoveAt(requests, i)
             /\ InventoryMounted'
             /\ \/ ~requests[i].payload.isJson
                \/ ~({"suggestedPrice", "reasoning"}
                        \subseteq requests[i].payload.keys)
             /\ priceSuggestion.isLoading)
            => /\ ~priceSuggestion'.isLoading
               /\ priceSuggestion'.reasoning = FailedText
               /\ priceSuggestion'.suggestedPrice = 0
               /\ priceSuggestion'.isOpen = priceSuggestion.isOpen
               /\ priceSuggestion.isOpen => PopupState' = "Failed"]_vars
    /\ (priceSuggestion.isLoading ~> ~priceSuggestion.isLoading)

\* The popup shows the failure of a call that was answered with something
\* that is not JSON
C13_Witness ==
    /\ PopupState = "Failed"
    /\ priceSuggestion.suggestedPrice = 0
    /\ requests = <<>>
    /\ isModalOpen

\* C14: a submit of the form that is refused leaves the catalog and the
\* draft as they are and the modal open, and no step taken while the open
\* form lacks a name or a machine changes the catalog.
C14_RejectedBeforeMutation ==
    [][/\ audit'.rejected # audit.rejected
            => /\ products' = products
               /\ isModalOpen /\ isModalOpen'
               /\ currentProduct' = currentProduct
       /\ (FormVisible
             /\ (currentProduct.name = "" \/ currentProduct.machineId = ""))
            => products' = products]_vars

\* The form was submitted without a name and is still open, the catalog
\* as it was
C14_Witness ==
    /\ audit.rejected > 0
    /\ FormVisible
    /\ currentProduct.name = ""
    /\ products = INITIAL_PRODUCTS

C16_OneCheckoutInProgress == Len(timers) <= 1

\* C17: a later price-suggestion request supersedes an earlier one that
\* is still outstanding: when the response of a request that is not the
\* latest outstanding one arrives, the popup (loading flag, product,
\* suggested price, reasoning) is left as the latest request set it.
C17_LatestRequestWins ==
    [][\A i \in 1..(Len(requests) - 1) :
          (/\ requests[i] # requests[i + 1]
           /\ requests' = RemoveAt(requests, i))
          => priceSuggestion' = priceSuggestion]_vars

\* C18: the Low Stock badge of the inventory table holds exactly of the
\* products with quantity <= min_quantity, those with quantity =
\* min_quantity included, and the dashboard's low-stock count is, for every
\* machine filter, the number of shown products that carry the badge.
C18_LowStockPredicate ==
    /\ \A k \in 1..Len(products) :
          /\ isLowStock(products[k])
                <=> /\ products[k].quantity # NaN
                    /\ products[k].quantity <= products[k].min_quantity
          /\ products[k].quantity = products[k].min_quantity
                => isLowStock(products[k])
    /\ \A m \in MachineIds \cup {"all"} :
          lowStockCount(products, m)
            = Cardinality({k \in 1..Len(products) :
                             /\ m = "all" \/ products[k].machineId = m
                             /\ isLowStock(products[k])})

\* A product was saved with quantity = min_quantity, another is not low
C18_Witness ==
    /\ \E k \in 1..Len(products) :
          /\ products[k].quantity = products[k].min_quantity
          /\ isLowStock(products[k])
    /\ \E k \in 1..Len(products) : ~isLowStock(products[k])
    /\ lowStockCount(products, "all") < Len(products)
    /\ lowStockCount(products, "m1") > lowStockCount(products, "m2")

\* C19: no product is expired and near-expiry at once, neither in the
\* badges of the inventory table (whether or not the clock advances between
\* its two readings) nor in the expiry lists of the assistant.
C19_ExpiryClassesDisjoint ==
    \A k \in 1..Len(products) :
       /\ \A t2 \in {now, now + 1} :
             ~(/\ isExpired(products[k], now)
               /\ isNearExpiry(products[k], now, t2))
       /\ ~(/\ products[k] \in Range(expiredProducts(products, now))
            /\ products[k] \in Range(nearExpiryProducts(products, now)))

\* The catalog holds an expired product and one that expires at this very
\* instant and so is near expiry
C19_Witness ==
    /\ \E k \in 1..Len(products) :
          /\ isExpired(products[k], now)
          /\ products[k] \in Range(expiredProducts(products, now))
    /\ \E k \in 1..Len(products) :
          /\ products[k].expiryDate = now
          /\ isNearExpiry(products[k], now, now)
          /\ products[k] \in Range(nearExpiryProducts(products, now))

\* C20: for every product with an expiry date, the table's badges and the
\* assistant's lists both say expired exactly when expiryDate < now and
\* near-expiry exactly when now <= expiryDate <= now + 7 days.
C20_ExpiryBoundaries ==
    \A k \in 1..Len(products) :
       LET product == products[k]
           expired == product.expiryDate < now
           near == /\ now <= product.expiryDate
                   /\ product.expiryDate <= now + 7 * DAY
       IN Truthy(product.expiryDate)
          => /\ isExpired(product, now) <=> expired
             /\ isNearExpiry(product, now, now) <=> near
             /\ product \in Range(expiredProducts(products, now)) <=> expired
             /\ product \in Range(nearExpiryProducts(products, now)) <=> near

\* C21: when decoding or playing the audio of a chat reply fails, the
\* reply is the one message the send appends to the transcript, no error
\* message follows it, and the loading flag is false afterwards.
C21_AudioFailureKeepsReply ==
    [][(/\ Len(chats) > 0
        /\ chats' = Tail(chats)
        /\ isOwnerMode' = isOwnerMode
        /\ audit'.playback = Throws)
         => /\ Head(audit'.response).audio # Undefined
            /\ messages' = Append(messages,
                                  [role |-> "model",
                                   text |-> Head(audit'.response).text])
            /\ Last(messages').text # SendError
            /\ ~isLoading']_vars

\* A reply with audio was appended although its playback failed
C21_Witness ==
    /\ audit.playback = Throws
    /\ audit.response # <<>>
    /\ Head(audit.response).audio # Undefined
    /\ Len(messages) = 3
    /\ Last(messages) = [role |-> "model", text |-> Head(audit.response).text]
    /\ ~isLoading

\* C22: every product of the catalog has the machineId of a known machine.
C22_KnownMachine ==
    \A k \in 1..Len(products) : products[k].machineId \in MachineIds

\* A product was added and another moved to a different machine, and a
\* checkout has been applied to the catalog
C22_Witness ==
    /\ audit.n > 0
    /\ \E k \in 1..Len(products) :
          products[k].id \notin {"p1", "p2"} /\ products[k].machineId = "m2"
    /\ \E k \in 1..Len(products) :
          products[k].id \in {"p1", "p2"} /\ products[k].machineId = "m2"

\* C23: handleCustomerPurchase called with an empty cart creates no sale
\* record and leaves the ledger and the catalog as they are; and no
\* checkout is started from an empty cart, so that every pending checkout
\* and every checkout applied has at least one line.
C23_EmptyCartNoCheckout ==
    /\ [](/\ \A method \in PaymentMethod :
               /\ NewSales(<<>>, now, method) = <<>>
               /\ SetSales(sales, NewSales(<<>>, now, method)) = sales
          /\ SetProducts(products, products, <<>>) = products
          /\ \A i \in 1..Len(timers) : Len(timers[i].cart) > 0)
    /\ [][/\ Len(timers') > Len(timers) => Len(cart) > 0
          /\ audit'.n # audit.n
               => Len(audit'.cart) > 0 /\ Len(sales') > Len(sales)]_vars

\* The cart screen is shown with an empty cart after a checkout, and no
\* checkout is pending
C23_Witness ==
    /\ CartVisible
    /\ cart = <<>>
    /\ audit.n > 0
    /\ timers = <<>>

\* C24: within one mount of the assistant every step leaves the
\* transcript as it is or appends one message at its end; the messages
\* already there stay, in their order.
C24_TranscriptAppendOnly ==
    [][isOwnerMode' = isOwnerMode
         => \/ messages' = messages
            \/ /\ Len(messages') = Len(messages) + 1
               /\ SubSeq(messages', 1, Len(messages)) = messages]_vars

\* A send was answered by the error text and the next one by a reply
C24_Witness ==
    /\ Len(messages) = 5
    /\ messages[1] = Greeting
    /\ messages[2].role = "user"
    /\ messages[3].text = ChatFallback
    /\ messages[5].text = "Restock p2."

\* C25: applying a checkout leaves the catalog with the same products in
\* the same order as the live catalog had just before, each product not in
\* the cart unchanged and each product in the cart changed in its quantity
\* only.
C25_CheckoutFrame ==
    [][audit'.n # audit.n
         => /\ Len(products') = Len(products)
            /\ \A k \in 1..Len(products) :
                  IF \E i \in 1..Len(audit'.cart) :
                        audit'.cart[i].id = products[k].id
                  THEN products'[k] = [products[k] EXCEPT
                                         !.quantity = products'[k].quantity]
                  ELSE products'[k] = products[k]]_vars

\* C26: the ledger is ordered newest first: timestamps do not increase
\* from one record to the next; and a checkout puts its records, which are
\* no older than any record before, in front of the ledger it finds.
C26_LedgerNewestFirst ==
    /\ [](\A i \in 1..(Len(sales) - 1) :
             sales[i].timestamp >= sales[i + 1].timestamp)
    /\ [][audit'.n # audit.n
           => LET added == Len(sales') - Len(sales)
              IN /\ added > 0
                 /\ SubSeq(sales', added + 1, Len(sales')) = sales
                 /\ \A i \in 1..added : sales'[i].timestamp = now
                 /\ \A k \in 1..Len(sales) : sales[k].timestamp <= now]_vars

\* A checkout has put its records in front of the seed, at a later time
C26_Witness ==
    /\ audit.n > 0
    /\ Len(sales) > Len(INITIAL_SALES)
    /\ sales[1].timestamp > sales[Len(sales)].timestamp
    /\ sales[1].timestamp > NOW

C28_SendCompletes ==
    /\ isLoading ~> ~isLoading
    /\ [][(isLoading /\ ~isLoading' /\ isOwnerMode' = isOwnerMode)
           => /\ Last(messages).role = "user"
              /\ Len(messages') = Len(messages) + 1
              /\ SubSeq(messages', 1, Len(messages)) = messages
              /\ Last(messages').role = "model"]_vars

\* A send whose model call failed has completed with the fallback text
C28_Witness ==
    /\ ~isLoading
    /\ chats = <<>>
    /\ Len(messages) >= 3
    /\ Last(messages).text = ChatFallback
    /\ messages[Len(messages) - 1].role = "user"

\* C29: the request of a chat send carries, as history, the transcript as
\* it was before the user message of the send, in order, and the user
\* message as currentMessage; the contents sent to the model are the system
\* instruction followed by the transcript with the user message at its
\* end, each message once.
C29_HistoryBeforeCurrent ==
    [][Len(chats') > Len(chats)
         => LET c == Last(chats')
            IN /\ Len(messages') = Len(messages) + 1
               /\ c.history = messages
               /\ c.currentMessage = Last(messages').text
               /\ Last(messages').role = "user"
               /\ Len(c.contents) = Len(messages') + 1
               /\ c.contents[1] = SystemTurn
               /\ \A i \in 1..Len(messages') :
                     c.contents[i + 1] = messages'[i]]_vars

\* The request of the second send of a chat: greeting, first question and
\* first reply as history
C29_Witness ==
    /\ Len(chats) = 1
    /\ Len(Head(chats).history) = 3
    /\ Head(chats).history[3].role = "model"
    /\ Len(Head(chats).contents) = 5
    /\ Head(chats).content = Pending

\* C30: when Apply Suggestion changes the price of the draft, the draft is
\* of the product the displayed suggestion was requested for.
C30_AppliedToRequestedProduct ==
    [][(/\ priceSuggestion.isOpen
        /\ priceSuggestion.product # <<>>
        /\ priceSuggestion' = [priceSuggestion EXCEPT !.isOpen = FALSE]
        /\ currentProduct' = [currentProduct EXCEPT
                                !.price = priceSuggestion.suggestedPrice]
        /\ currentProduct' # currentProduct)
         => Head(priceSuggestion.product).id = currentProduct.id]_vars

====
